---- MODULE Spec2Model ----
(***************************************************************************)
(* Model of the dev dashboard's process supervisor (SCRIPTS/dashboard.py): *)
(* ProjectManager (start, stop, group/bulk operations, update_statuses,    *)
(* shutdown), MonitorThread, the single-threaded HTTP handler and the      *)
(* signal handler installed by main().                                     *)
(*                                                                         *)
(* Threads: the main thread (serve_forever: one request at a time), the    *)
(* signal handler (runs on the main thread, which is suspended meanwhile), *)
(* the monitor thread, and the daemon threads of start_all / start_group.  *)
(* Time is a Tick action that advances capped timers by one time unit.     *)
(*                                                                         *)
(* A second, independent program is modelled beside it: the issue poller   *)
(* (TOOLS/CLAUDE_AUTOMATION/poll_issues.py), a single-threaded loop over   *)
(* the labelled issues with its SQLite tables, GitHub's comments and the   *)
(* agent processes it spawns.                                              *)
(***************************************************************************)
EXTENDS Integers, Sequences, FiniteSets, TLC

\* ---------------------------------------------------------------- bounds
MaxSpawns == 2        \* processes the supervisor may spawn in one run
MaxStaggered == 2     \* start_all / start_group threads alive at once
MaxRequests == 2      \* HTTP requests served in one run
MaxLog == 2           \* chunks of output kept in one log file
MaxComments == 2      \* comments posted on those issues in one run
MaxAgents == 2        \* agent processes the poller may spawn in one run

\* ------------------------------------------------------ program constants
StartDelay == 1       \* time.sleep(1) between staggered starts
StopGrace == 3        \* proc.wait(timeout=3)
MonitorPeriod == 2    \* time.sleep(2) in MonitorThread.run
SIGTERM == 15
SIGKILL == 9

\* The registry, in dict order; a reduced copy of the 26 entries.
PROJECTS ==
  << [id |-> "welcome", port |-> 8080, group |-> "MAIN"],
     [id |-> "helios",  port |-> 8081, group |-> "MAIN"] >>

N == Len(PROJECTS)
Ids == {PROJECTS[i].id : i \in 1..N}
Groups == {PROJECTS[i].group : i \in 1..N}
UnknownId == "nope"
\* A group none of whose members is among the tracked projects.
OtherGroup == "TOOLS"
ReqGroups == Groups \cup {OtherGroup}
ReqIds == Ids \cup {UnknownId}

None == {}            \* Python None / a missing dict entry; Some(x) is {x}
Some(x) == {x}
Val(o) == CHOOSE x \in o : TRUE

Status == {"stopped", "building", "running", "error", "unmanaged"}
SelfExitCodes == {0, 7}          \* codes a child may exit with on its own
Pids == 1..MaxSpawns

MainT == 0
SigT == -1
MonT == -2
Bg == 1..MaxStaggered
Threads == {MainT, SigT, MonT} \cup Bg

VARIABLES
  processes,    \* self.processes: id -> None | Some(pid)
  statuses,     \* self.statuses
  exit_codes,   \* self.exit_codes: id -> None | Some(code)
  lock,         \* self.lock: None (free) or Some(thread holding it)
  os,           \* OS process table of the spawned children
  ext,          \* id -> an external process listens on the project's port
  pc,           \* thread -> position
  loc,          \* thread -> locals
  timer,        \* thread -> time units elapsed in the current wait/sleep
                \* (a staggered thread keeps its last sleep's count until
                \* its next start() returns)
  sinceGroupSpawn, \* time since the last spawn made by a staggered thread
  otherSpawn,   \* thread in start(id) -> what overlapping calls did
  nreq,         \* HTTP requests accepted so far
  log,          \* id -> content of LOG_DIR/<id>.log (the pids that wrote)
  had,          \* during a status fetch, between the read of a project's
                \* status and the read of its exit code: the exit codes
                \* the project has had together with the status read
  conn,         \* poll_issues.py: the SQLite database (processed_comments
                \* and active_agents tables)
  gh,           \* GitHub: issue number -> its comments, oldest first
  agents,       \* OS process table of the agents the poller spawned
  poller        \* poll_issues.py: where main() is, and its locals

\* The variables of the dashboard and those of the issue poller.
dashVars == << processes, statuses, exit_codes, lock, os, ext, pc, loc,
              timer, sinceGroupSpawn, otherSpawn, nreq, log, had >>
pvars == << conn, gh, agents, poller >>

vars == << processes, statuses, exit_codes, lock, os, ext, pc, loc, timer,
           sinceGroupSpawn, otherSpawn, nreq, log, had, conn, gh, agents,
           poller >>

NoProc == [st |-> "none", proj |-> "", rc |-> 0, listening |-> FALSE,
           term |-> FALSE, kill |-> FALSE]
NoLoc == [op |-> "", id |-> "", group |-> "", i |-> 0, proc |-> None,
          rc |-> None, keys |-> << >>, ret |-> "none", again |-> FALSE,
          status |-> "", counts |-> << >>, projects |-> << >>]

\* An exited child not yet waited for, and the table entry once it is reaped.
Zombie(id, rc) == [NoProc EXCEPT !.st = "exited", !.proj = id, !.rc = rc]
Reaped == [NoProc EXCEPT !.st = "reaped"]

\* _port_open: something accepts connections on the project's port.
_port_open(id) ==
  \/ ext[id]
  \/ \E k \in Pids : os[k].st = "alive" /\ os[k].proj = id /\ os[k].listening


\* ===================================================================
\* TOOLS/CLAUDE_AUTOMATION/poll_issues.py: the issue poller
\* ===================================================================
\* The open issues that carry the claude-auto label.
Issues == {1, 2}
CommentIds == 1..MaxComments
AgentPids == 1..MaxAgents

\* What is_bot_comment looks at: an ordinary user comment, a user of type
\* Bot, a login ending in [bot], a body carrying one of BOT_SIGNATURES.
Kinds == {"user", "bot_type", "bot_login", "bot_signature"}

NoAgent == [st |-> "none", issue |-> 0, comment |-> 0]
\* What the last turn of the poll loop logged.
NoLine == [issue |-> 0, comment |-> 0, what |-> "none"]

\* init_db() on a fresh database; nothing posted or spawned yet.
PollerInit ==
  /\ conn = [processed_comments |-> {},
             active_agents |-> [n \in Issues |-> None]]
  /\ gh = [n \in Issues |-> << >>]
  /\ agents = [p \in AgentPids |-> NoAgent]
  /\ poller = [pc |-> "seed", issues |-> << >>, i |-> 0, line |-> NoLine]

\* ------------------------------------------------- GitHub and the agents
\* The ids of the comments posted so far.
Posted == UNION {{gh[n][j].id : j \in 1..Len(gh[n])} : n \in Issues}

\* Somebody (a user, a bot, an agent) comments on issue n.
PostComment(n, kind) ==
  /\ Cardinality(Posted) < MaxComments
  /\ gh' = [gh EXCEPT
              ![n] = Append(@, [id |-> Cardinality(Posted) + 1,
                                kind |-> kind])]
  /\ UNCHANGED << conn, agents, poller, dashVars >>

\* An agent process ends.
AgentExit(p) ==
  /\ agents[p].st = "alive"
  /\ agents' = [agents EXCEPT ![p].st = "dead"]
  /\ UNCHANGED << conn, gh, poller, dashVars >>

\* ------------------------------------------------------------ the tables
\* os.kill(pid, 0) succeeds: the process exists.
kill0(p) == agents[p].st = "alive"

\* Mutant: no comment ever counts as processed.
is_processed_Never(comment_id) == FALSE

is_processed(comment_id) == comment_id \in conn.processed_comments

\* Mutant: no issue ever counts as having an agent.
has_active_agent_Never(n) == FALSE

has_active_agent(n) ==
  /\ conn.active_agents[n] # None
  /\ kill0(Val(conn.active_agents[n]))

\* The active_agents table after has_active_agent(n): the record of a
\* process found dead is deleted.
AfterActiveCheck(n) ==
  IF conn.active_agents[n] # None /\ ~kill0(Val(conn.active_agents[n]))
  THEN [conn.active_agents EXCEPT ![n] = None]
  ELSE conn.active_agents

\* Mutant: only the user type is looked at.
is_bot_comment_TypeOnly(comment) == comment.kind = "bot_type"

is_bot_comment(comment) ==
  comment.kind \in {"bot_type", "bot_login", "bot_signature"}

\* get_issue_body: the issue body as a pseudo-comment with id -number.
get_issue_body(n) == [id |-> -n, kind |-> "user"]

\* get_last_comment: the outcomes of the gh calls are "comments" (the
\* call succeeds: .[-1] of the list, null if the list is empty), "body"
\* (it fails or prints nothing and the issue is fetched instead), "none".
FetchOutcomes == {"comments", "body", "none"}
get_last_comment(n, fetch) ==
  CASE fetch = "comments" ->
         IF gh[n] = << >> THEN None ELSE Some(gh[n][Len(gh[n])])
    [] fetch = "body" -> Some(get_issue_body(n))
    [] OTHER -> None

\* Mutant: a comment is marked processed only once its agent is running.
MarkedBeforeSpawn_OnlyIfSpawned(processed, comment_id, spawned) ==
  IF spawned THEN processed \cup {comment_id} ELSE processed

\* mark_processed(conn, comment_id, issue_number) ahead of spawn_claude:
\* the processed set whatever the spawn then does.
MarkedBeforeSpawn(processed, comment_id, spawned) ==
  processed \cup {comment_id}

FreeAgentPid == CHOOSE p \in AgentPids :
                  agents[p].st = "none" /\
                  \A q \in AgentPids : q < p => agents[q].st # "none"

\* ------------------------------------------------------------- main()
\* seed_existing_comments: the comments of every issue whose listing
\* succeeds are marked processed (none if get_labeled_issues fails).
seed_existing_comments ==
  /\ poller.pc = "seed"
  /\ \E listed \in SUBSET Issues :
       conn' = [conn EXCEPT !.processed_comments =
                  @ \cup UNION {{gh[n][j].id : j \in 1..Len(gh[n])} :
                                n \in listed}]
  /\ poller' = [poller EXCEPT !.pc = "cleanup"]
  /\ UNCHANGED << gh, agents, dashVars >>

\* cleanup_dead_agents: every record whose process is gone is cleared.
cleanup_dead_agents ==
  /\ poller.pc = "cleanup"
  /\ conn' = [conn EXCEPT !.active_agents =
                [n \in Issues |->
                   IF @[n] # None /\ ~kill0(Val(@[n])) THEN None ELSE @[n]]]
  /\ poller' = [poller EXCEPT !.pc = "fetch"]
  /\ UNCHANGED << gh, agents, dashVars >>

\* poll_once begins: get_labeled_issues returns the labelled issues, or
\* [] on an error, in which case the cycle is over.
get_labeled_issues(ok) ==
  /\ poller.pc = "fetch"
  /\ poller' = [poller EXCEPT
                  !.issues = IF ok THEN << 1, 2 >>
                             ELSE << >>,
                  !.i = IF ok THEN 1 ELSE 0,
                  !.pc = IF ok THEN "iter" ELSE "sleep"]
  /\ UNCHANGED << conn, gh, agents, dashVars >>

\* One turn of the loop: what is written to the tables and the process
\* table, and what is logged.
Turn(n, comment_id, what, active, processed, newAgents) ==
  /\ conn' = [processed_comments |-> processed, active_agents |-> active]
  /\ agents' = newAgents
  /\ poller' = [poller EXCEPT
                  !.i = @ + 1,
                  !.line = [issue |-> n, comment |-> comment_id,
                            what |-> what]]
  /\ UNCHANGED << gh, dashVars >>

\* for issue_number in issues: one turn of the loop of poll_once, with the
\* outcome of the gh calls and of Popen.
PollIssue(fetch, popen) ==
  /\ poller.pc = "iter"
  /\ poller.i <= Len(poller.issues)
  /\ popen = "ok" => \E p \in AgentPids : agents[p].st = "none"
  /\ LET n == poller.issues[poller.i]
         active == AfterActiveCheck(n)
         processed == conn.processed_comments
         comment == get_last_comment(n, fetch) IN
     IF has_active_agent(n)
     THEN Turn(n, 0, "agent_running", active, processed, agents)
     ELSE IF comment = None
     THEN Turn(n, 0, "no_comment", active, processed, agents)
     ELSE LET c == Val(comment) IN
       IF is_processed(c.id)
       THEN Turn(n, c.id, "already_processed", active, processed, agents)
       ELSE IF is_bot_comment(c)
       THEN Turn(n, c.id, "bot_comment", active,
                 processed \cup {c.id}, agents)
       ELSE IF popen = "ok"
       THEN Turn(n, c.id, "spawned",
                 [active EXCEPT ![n] = Some(FreeAgentPid)],
                 MarkedBeforeSpawn(processed, c.id, TRUE),
                 [agents EXCEPT ![FreeAgentPid] =
                    [st |-> "alive", issue |-> n, comment |-> c.id]])
       ELSE Turn(n, c.id, "spawn_failed", active,
                 MarkedBeforeSpawn(processed, c.id, FALSE), agents)

\* The loop is over; time.sleep(POLL_INTERVAL).
PollDone ==
  /\ poller.pc = "iter"
  /\ poller.i > Len(poller.issues)
  /\ poller' = [poller EXCEPT !.pc = "sleep", !.issues = << >>, !.i = 0,
                               !.line = NoLine]
  /\ UNCHANGED << conn, gh, agents, dashVars >>

\* The sleep is over: the next cycle.
PollWake ==
  /\ poller.pc = "sleep"
  /\ poller' = [poller EXCEPT !.pc = "cleanup"]
  /\ UNCHANGED << conn, gh, agents, dashVars >>

NextPoller ==
  \/ \E n \in Issues : \E kind \in Kinds : PostComment(n, kind)
  \/ \E p \in AgentPids : AgentExit(p)
  \/ seed_existing_comments
  \/ cleanup_dead_agents
  \/ \E ok \in BOOLEAN : get_labeled_issues(ok)
  \/ \E fetch \in FetchOutcomes : \E popen \in {"ok", "fail"} :
       PollIssue(fetch, popen)
  \/ PollDone
  \/ PollWake

\* ===================================================================
\* SCRIPTS/dashboard.py: the process supervisor
\* ===================================================================
\* Mutant: the ports are not probed at construction.
InitWith_AllStopped(ports) ==
  /\ ext \in ports
  /\ processes = [p \in Ids |-> None]
  /\ statuses = [p \in Ids |-> "stopped"]
  /\ exit_codes = [p \in Ids |-> None]
  /\ lock = None
  /\ os = [k \in Pids |-> NoProc]
  /\ pc = [t \in Threads |->
             CASE t = MainT -> "idle"
               [] t = SigT -> "none"
               [] t = MonT -> "mon_lock"
               [] OTHER -> "off"]
  /\ loc = [t \in Threads |-> NoLoc]
  /\ timer = [t \in Threads |-> 0]
  /\ sinceGroupSpawn = StartDelay
  /\ otherSpawn = [t \in Threads |-> "none"]
  /\ nreq = 0
  /\ log = [p \in Ids |-> << >>]
  /\ had = {}
  /\ PollerInit

\* ProjectManager.__init__: statuses seeded from a port probe; main() then
\* starts the monitor thread and serves requests.
InitWith(ports) ==
  /\ ext \in ports
  /\ processes = [p \in Ids |-> None]
  /\ statuses = [p \in Ids |-> IF ext[p] THEN "unmanaged" ELSE "stopped"]
  /\ exit_codes = [p \in Ids |-> None]
  /\ lock = None
  /\ os = [k \in Pids |-> NoProc]
  /\ pc = [t \in Threads |->
             CASE t = MainT -> "idle"
               [] t = SigT -> "none"
               [] t = MonT -> "mon_lock"
               [] OTHER -> "off"]
  /\ loc = [t \in Threads |-> NoLoc]
  /\ timer = [t \in Threads |-> 0]
  /\ sinceGroupSpawn = StartDelay
  /\ otherSpawn = [t \in Threads |-> "none"]
  /\ nreq = 0
  /\ log = [p \in Ids |-> << >>]
  /\ had = {}
  /\ PollerInit

\* Any of the tracked ports may be taken when the dashboard comes up.
Init == InitWith([Ids -> BOOLEAN])
\* The dashboard comes up with every tracked port free.
InitFree == InitWith({[p \in Ids |-> FALSE]})

\* ------------------------------------------------------------ scheduling
Exited == pc[SigT] = "exited"

\* The signal handler runs on the main thread: while it is active the frame
\* it interrupted makes no progress.
Runnable(t) ==
  /\ ~Exited
  /\ t = MainT => pc[SigT] = "none"

StartPcs == {"start_lock", "start_check"}
StopPcs == {"stop_lock", "stop_wait"}
InStart(t, id) == pc[t] \in StartPcs /\ loc[t].id = id

\* Where a thread continues when its start()/stop() call returns.
RetPc(t) ==
  CASE t \in Bg -> "bg_sleep"
    [] t = SigT -> "sd_iter"
    [] t = MainT /\ loc[t].op \in {"start", "stop"} -> "respond"
    [] OTHER -> "sa_iter"

RetLoc(t, val) == [loc[t] EXCEPT !.ret = val, !.proc = None, !.rc = None,
                                 !.again = t \in Bg]

\* An exception escaping a call: a daemon thread dies, the HTTP server
\* reports the error and serves the next request.
RaisePc(t) == IF t = MainT THEN "idle" ELSE "off"

\* History for overlapping start(id) calls: what other calls on the same
\* id did since this call was invoked.
NoteSpawn(t, id) ==
  [u \in Threads |->
     IF u # t /\ InStart(u, id) THEN "spawned" ELSE otherSpawn[u]]
NoteRelease(id) ==
  [u \in Threads |->
     IF InStart(u, id) /\ otherSpawn[u] = "spawned" THEN "released"
     ELSE otherSpawn[u]]
NoteInvoke(t, id) == [otherSpawn EXCEPT ![t] = "none"]

\* ----------------------------------------------------------- environment
\* One time unit passes: every running timer advances (capped).
Cap(x, m) == IF x < m THEN x + 1 ELSE m
Tick ==
  /\ ~Exited
  /\ timer' = [t \in Threads |->
                 CASE pc[t] = "stop_wait" -> Cap(timer[t], StopGrace)
                   [] pc[t] = "bg_sleep" -> Cap(timer[t], StartDelay)
                   [] pc[t] = "mon_sleep" -> Cap(timer[t], MonitorPeriod)
                   [] OTHER -> timer[t]]
  /\ sinceGroupSpawn' = Cap(sinceGroupSpawn, StartDelay)
  /\ UNCHANGED << processes, statuses, exit_codes, lock, os, ext, pc, loc,
                  otherSpawn, nreq, log, had, pvars >>

\* A process the supervisor did not spawn binds / releases a tracked port.
ExtBind(id) ==
  /\ ~Exited
  /\ ~_port_open(id)
  /\ ext' = [ext EXCEPT ![id] = TRUE]
  /\ UNCHANGED << processes, statuses, exit_codes, lock, os, pc, loc, timer,
                  sinceGroupSpawn, otherSpawn, nreq, log, had, pvars >>

ExtRelease(id) ==
  /\ ~Exited
  /\ ext[id]
  /\ ext' = [ext EXCEPT ![id] = FALSE]
  /\ UNCHANGED << processes, statuses, exit_codes, lock, os, pc, loc, timer,
                  sinceGroupSpawn, otherSpawn, nreq, log, had, pvars >>

\* trunk finishes its build and opens the port (only if the port is free).
ChildListen(k) ==
  /\ ~Exited
  /\ os[k].st = "alive" /\ ~os[k].listening
  /\ ~_port_open(os[k].proj)
  /\ os' = [os EXCEPT ![k].listening = TRUE]
  /\ UNCHANGED << processes, statuses, exit_codes, lock, ext, pc, loc, timer,
                  sinceGroupSpawn, otherSpawn, nreq, log, had, pvars >>

\* The child exits on its own with code rc (the table keeps whether it had
\* been sent SIGTERM before).
ChildExit(k, rc) ==
  /\ ~Exited
  /\ os[k].st = "alive"
  /\ os' = [os EXCEPT ![k] =
              [Zombie(os[k].proj, rc) EXCEPT !.term = os[k].term]]
  /\ UNCHANGED << processes, statuses, exit_codes, lock, ext, pc, loc, timer,
                  sinceGroupSpawn, otherSpawn, nreq, log, had, pvars >>

\* The child dies of a signal it was sent: Popen reports -signum.
ChildKilled(k) ==
  /\ ~Exited
  /\ os[k].st = "alive"
  /\ os[k].term \/ os[k].kill
  /\ os' = [os EXCEPT ![k] =
              Zombie(os[k].proj, IF os[k].kill THEN -SIGKILL ELSE -SIGTERM)]
  /\ UNCHANGED << processes, statuses, exit_codes, lock, ext, pc, loc, timer,
                  sinceGroupSpawn, otherSpawn, nreq, log, had, pvars >>

\* ------------------------------------------------- ProjectManager.start
\* "with self.lock:" - blocks until the lock is free.
\* A running child writes a chunk of output: stdout and stderr go to the
\* log file its start() opened.
ChildWrite(k) ==
  /\ os[k].st = "alive"
  /\ Len(log[os[k].proj]) < MaxLog
  /\ log' = [log EXCEPT ![os[k].proj] = Append(@, k)]
  /\ UNCHANGED << processes, statuses, exit_codes, lock, os, ext, pc, loc,
                  timer, sinceGroupSpawn, otherSpawn, nreq, had,
                  pvars >>

\* start() that enters its body without waiting for the lock.
StartEnter_NoLock(t) ==
  /\ Runnable(t)
  /\ pc[t] = "start_lock"
  /\ lock' = Some(t)
  /\ pc' = [pc EXCEPT ![t] = "start_check"]
  /\ UNCHANGED << processes, statuses, exit_codes, os, ext, loc, timer,
                  sinceGroupSpawn, otherSpawn, nreq, log, had, pvars >>

StartEnter(t) ==
  /\ Runnable(t)
  /\ pc[t] = "start_lock"
  /\ lock = None
  /\ lock' = Some(t)
  /\ pc' = [pc EXCEPT ![t] = "start_check"]
  /\ UNCHANGED << processes, statuses, exit_codes, os, ext, loc, timer,
                  sinceGroupSpawn, otherSpawn, nreq, log, had, pvars >>

\* Mutants: the check forgets "building" / forgets "unmanaged".
StartRefused_NoBuilding(st) == st \in {"running", "unmanaged"}
StartRefused_NoUnmanaged(st) == st \in {"running", "building"}
\* Mutant: a project in error is refused as well.
StartRefused_AlsoError(st) == st \in {"running", "building", "unmanaged", "error"}

\* The statuses for which start() refuses at once.
StartRefused(st) == st \in {"running", "building", "unmanaged"}

FreePid == CHOOSE k \in Pids : os[k].st = "none" /\
                               \A j \in Pids : j < k => os[j].st # "none"

\* The project whose entry a status fetch in progress is reading.
FetchId == PROJECTS[loc[MainT].i].id

\* A write of the status or exit-code map while a status fetch is between
\* its two reads of a project: the exit codes seen with the status read.
Observe(newStatuses, newExit) ==
  IF pc[MainT] = "fetch_exit" /\ newStatuses[FetchId] = loc[MainT].status
  THEN had \cup {newExit[FetchId]}
  ELSE had

\* Mutant: a spawn keeps the exit code of the previous run.
ClearedExit_Kept(old) == old

\* self.exit_codes[project_id] = None after a successful spawn.
ClearedExit(old) == None

\* open(log_file, "w"): the file is created or truncated.
Truncated(id) == [log EXCEPT ![id] = << >>]

\* Mutant: a failing start() returns without releasing the lock.
StartFail_KeepsLock(t, id, newStatuses) ==
  /\ statuses' = newStatuses
  /\ had' = Observe(newStatuses, exit_codes)
  /\ pc' = [pc EXCEPT ![t] = RetPc(t)]
  /\ loc' = [loc EXCEPT ![t] = RetLoc(t, "false")]
  /\ timer' = [timer EXCEPT ![t] = 0]
  /\ otherSpawn' = [otherSpawn EXCEPT ![t] = "none"]
  /\ UNCHANGED << processes, exit_codes, lock, os, ext, sinceGroupSpawn,
                  nreq, pvars >>

\* Mutant: a failing start() also forgets the exit code of the last run.
StartFail_ClearsExit(t, id, newStatuses) ==
  /\ statuses' = newStatuses
  /\ exit_codes' = [p \in Ids |-> IF p = id THEN None ELSE exit_codes[p]]
  /\ had' = Observe(newStatuses, exit_codes')
  /\ lock' = None
  /\ pc' = [pc EXCEPT ![t] = RetPc(t)]
  /\ loc' = [loc EXCEPT ![t] = RetLoc(t, "false")]
  /\ timer' = [timer EXCEPT ![t] = 0]
  /\ otherSpawn' = [otherSpawn EXCEPT ![t] = "none"]
  /\ UNCHANGED << processes, os, ext, sinceGroupSpawn, nreq, pvars >>

\* start() returns False (optionally after writing status "error").
StartFail(t, id, newStatuses) ==
  /\ statuses' = newStatuses
  /\ had' = Observe(newStatuses, exit_codes)
  /\ lock' = None
  /\ pc' = [pc EXCEPT ![t] = RetPc(t)]
  /\ loc' = [loc EXCEPT ![t] = RetLoc(t, "false")]
  /\ timer' = [timer EXCEPT ![t] = 0]
  /\ otherSpawn' = [otherSpawn EXCEPT ![t] = "none"]
  /\ UNCHANGED << processes, exit_codes, os, ext, sinceGroupSpawn, nreq, pvars >>

\* Mutant: a new process is recorded as already running.
StartedStatus_Running == "running"

\* The status start() records for a freshly spawned process.
StartedStatus == "building"

\* Mutant: a missing marker leaves the status as it was.
MarkerMissingStatus_Kept(st) == st

\* The status start() writes when the directory has neither marker file.
MarkerMissingStatus(st) == "error"

\* What subprocess.Popen may do: start the process, raise
\* FileNotFoundError, or raise any other OSError (PermissionError, fork
\* failure), which start() does not catch.
PopenOutcomes == {"ok", "notfound", "oserror"}

\* The body of start() under the lock: the checks, the Popen call and the
\* three writes that record the new process.
\*   marker : index.html or Trunk.toml exists in the project directory
\*   popen  : what Popen does, one of PopenOutcomes
StartBody(t, marker, popen) ==
  /\ Runnable(t)
  /\ pc[t] = "start_check"
  /\ LET id == loc[t].id IN
     IF id \notin Ids THEN StartFail(t, id, statuses) /\ UNCHANGED log
     ELSE IF StartRefused(statuses[id])
     THEN StartFail(t, id, statuses) /\ UNCHANGED log
     ELSE
       IF ~marker
       THEN /\ StartFail(t, id, [statuses EXCEPT
                                  ![id] = MarkerMissingStatus(statuses[id])])
            /\ UNCHANGED log
       ELSE
         CASE popen = "notfound" ->
                /\ StartFail(t, id, [statuses EXCEPT ![id] = "error"])
                /\ log' = Truncated(id)
           [] popen = "oserror" ->
                /\ lock' = None
                /\ pc' = [pc EXCEPT ![t] = RaisePc(t)]
                /\ loc' = [loc EXCEPT ![t] = NoLoc]
                /\ timer' = [timer EXCEPT ![t] = 0]
                /\ otherSpawn' = [otherSpawn EXCEPT ![t] = "none"]
                /\ log' = Truncated(id)
                /\ UNCHANGED << processes, statuses, exit_codes, os, ext,
                                sinceGroupSpawn, nreq, had, pvars >>
           [] popen = "ok" ->
                /\ \E k \in Pids : os[k].st = "none"
                /\ os' = [os EXCEPT ![FreePid] =
                            [NoProc EXCEPT !.st = "alive", !.proj = id]]
                /\ processes' = [processes EXCEPT ![id] = Some(FreePid)]
                /\ statuses' = [statuses EXCEPT ![id] = StartedStatus]
                /\ exit_codes' =
                     [exit_codes EXCEPT ![id] = ClearedExit(exit_codes[id])]
                /\ lock' = None
                /\ pc' = [pc EXCEPT ![t] = RetPc(t)]
                /\ loc' = [loc EXCEPT ![t] = RetLoc(t, "true")]
                /\ timer' = [timer EXCEPT ![t] = 0]
                /\ otherSpawn' = [NoteSpawn(t, id) EXCEPT ![t] = "none"]
                /\ sinceGroupSpawn' =
                     IF t \in Bg THEN 0 ELSE sinceGroupSpawn
                /\ log' = Truncated(id)
                /\ had' = Observe(statuses', exit_codes')
                /\ UNCHANGED << ext, nreq, pvars >>

StartCheck(t) ==
  \E marker \in BOOLEAN : \E popen \in PopenOutcomes :
    StartBody(t, marker, popen)

\* -------------------------------------------------- ProjectManager.stop
\* processes.get(id) / statuses.get(id): None for an unknown id.
GetProc(id) == IF id \in Ids THEN processes[id] ELSE None
GetStatus(id) == IF id \in Ids THEN statuses[id] ELSE "None"

\* _kill_port: SIGTERM to every process lsof finds on the port. External
\* processes are outside the process table; they may release the port later.
_kill_port(id) ==
  [k \in Pids |->
     IF os[k].st = "alive" /\ os[k].proj = id /\ os[k].listening
     THEN [os[k] EXCEPT !.term = TRUE] ELSE os[k]]

\* os.killpg(os.getpgid(proc.pid), sig); a lookup error is swallowed.
killpg(k, sig) ==
  IF os[k].st # "alive" THEN os
  ELSE IF sig = SIGKILL THEN [os EXCEPT ![k].kill = TRUE]
  ELSE [os EXCEPT ![k].term = TRUE]

\* Mutants: the no-handle branch never acts / also acts on "stopped".
StopNoHandle_Never(st) == FALSE
StopNoHandle_AlsoStopped(st) == st \in {"unmanaged", "stopped"}

\* With no handle, stop() acts only on an "unmanaged" project.
StopNoHandle(st) == st = "unmanaged"

\* "with self.lock:" and stop() up to the graceful signal.
StopEnter(t) ==
  /\ Runnable(t)
  /\ pc[t] = "stop_lock"
  /\ lock = None
  /\ LET id == loc[t].id
         proc == GetProc(id) IN
     IF proc = None
     THEN /\ IF StopNoHandle(GetStatus(id))
             THEN /\ os' = _kill_port(id)
                  /\ statuses' = [statuses EXCEPT ![id] = "stopped"]
                  /\ loc' = [loc EXCEPT ![t] = RetLoc(t, "true")]
             ELSE /\ UNCHANGED << os, statuses >>
                  /\ loc' = [loc EXCEPT ![t] = RetLoc(t, "false")]
          /\ pc' = [pc EXCEPT ![t] = RetPc(t)]
          /\ had' = Observe(statuses', exit_codes)
          /\ UNCHANGED << processes, exit_codes, lock, ext, timer,
                          sinceGroupSpawn, otherSpawn, nreq, log,
                          pvars >>
     ELSE /\ lock' = Some(t)
          /\ os' = killpg(Val(proc), SIGTERM)
          /\ loc' = [loc EXCEPT ![t].proc = proc]
          /\ pc' = [pc EXCEPT ![t] = "stop_wait"]
          /\ timer' = [timer EXCEPT ![t] = 0]
          /\ UNCHANGED << processes, statuses, exit_codes, ext,
                          sinceGroupSpawn, otherSpawn, nreq, log, had,
                          pvars >>

\* Mutant: the end of stop() marks every project stopped.
StopFinish_AllStopped(t, returncode) ==
  /\ processes' = [processes EXCEPT ![loc[t].id] = None]
  /\ statuses' = [p \in Ids |-> "stopped"]
  /\ exit_codes' = [exit_codes EXCEPT ![loc[t].id] = returncode]
  /\ otherSpawn' = NoteRelease(loc[t].id)
  /\ lock' = None
  /\ pc' = [pc EXCEPT ![t] = RetPc(t)]
  /\ loc' = [loc EXCEPT ![t] = RetLoc(t, "true")]
  /\ timer' = [timer EXCEPT ![t] = 0]
  /\ had' = Observe(statuses', exit_codes')
  /\ UNCHANGED << ext, sinceGroupSpawn, nreq, log, pvars >>

\* The end of stop(): del self.processes[id]; status "stopped";
\* exit_codes[id] = proc.returncode; return True (the lock is released).
StopFinish(t, returncode) ==
  /\ processes' = [processes EXCEPT ![loc[t].id] = None]
  /\ statuses' = [statuses EXCEPT ![loc[t].id] = "stopped"]
  /\ exit_codes' = [exit_codes EXCEPT ![loc[t].id] = returncode]
  /\ otherSpawn' = NoteRelease(loc[t].id)
  /\ lock' = None
  /\ pc' = [pc EXCEPT ![t] = RetPc(t)]
  /\ loc' = [loc EXCEPT ![t] = RetLoc(t, "true")]
  /\ timer' = [timer EXCEPT ![t] = 0]
  /\ had' = Observe(statuses', exit_codes')
  /\ UNCHANGED << ext, sinceGroupSpawn, nreq, log, pvars >>

\* proc.wait(timeout=3) returns: the process has exited and is reaped.
StopWaitExited(t) ==
  /\ Runnable(t)
  /\ pc[t] = "stop_wait"
  /\ LET k == Val(loc[t].proc) IN
     /\ os[k].st = "exited"
     /\ os' = [os EXCEPT ![k] = Reaped]
     /\ StopFinish(t, Some(os[k].rc))

\* Mutant: the kill does not wait for the grace period.
GraceOver_Immediate(t) == TRUE

\* proc.wait(timeout=3) has timed out.
GraceOver(t) == timer[t] >= StopGrace

\* TimeoutExpired: SIGKILL to the group; returncode stays None.
StopWaitTimeout(t) ==
  /\ Runnable(t)
  /\ pc[t] = "stop_wait"
  /\ GraceOver(t)
  /\ LET k == Val(loc[t].proc) IN
     /\ os[k].st = "alive"
     /\ os' = killpg(k, SIGKILL)
     /\ StopFinish(t, None)

\* ---------------------------- ProjectManager.update_statuses / monitor
\* proc.poll(): the exit code if the process has exited, else None.
poll(k) == IF os[k].st = "exited" THEN Some(os[k].rc) ELSE None

\* Mutants of update_status.
\* An owned process whose port is not up yet is written "stopped".
update_status_BuildingAsStopped(status, proc, rc, port_up) ==
  IF proc # None
  THEN IF rc # None
       THEN IF Val(rc) = 0 THEN "stopped" ELSE "error"
       ELSE IF port_up THEN "running" ELSE "stopped"
  ELSE IF status = "unmanaged"
       THEN IF ~port_up THEN "stopped" ELSE status
       ELSE IF status = "stopped" /\ port_up THEN "unmanaged" ELSE status

\* The exit code is not looked at: every exit is written "stopped".
update_status_ExitAlwaysStopped(status, proc, rc, port_up) ==
  IF proc # None
  THEN IF rc # None
       THEN "stopped"
       ELSE IF port_up THEN "running" ELSE "building"
  ELSE IF status = "unmanaged"
       THEN IF ~port_up THEN "stopped" ELSE status
       ELSE IF status = "stopped" /\ port_up THEN "unmanaged" ELSE status

\* "unmanaged" is never taken back.
update_status_KeepUnmanaged(status, proc, rc, port_up) ==
  IF proc # None
  THEN IF rc # None
       THEN IF Val(rc) = 0 THEN "stopped" ELSE "error"
       ELSE IF port_up THEN "running" ELSE "building"
  ELSE IF status = "stopped" /\ port_up THEN "unmanaged" ELSE status

\* The port probe is ignored for an owned process.
update_status_NeverRunning(status, proc, rc, port_up) ==
  IF proc # None
  THEN IF rc # None
       THEN IF Val(rc) = 0 THEN "stopped" ELSE "error"
       ELSE "building"
  ELSE IF status = "unmanaged"
       THEN IF ~port_up THEN "stopped" ELSE status
       ELSE IF status = "stopped" /\ port_up THEN "unmanaged" ELSE status

\* A port that comes up turns "error" into "unmanaged" as well.
update_status_ErrorToUnmanaged(status, proc, rc, port_up) ==
  IF proc # None
  THEN IF rc # None
       THEN IF Val(rc) = 0 THEN "stopped" ELSE "error"
       ELSE IF port_up THEN "running" ELSE "building"
  ELSE IF status = "unmanaged"
       THEN IF ~port_up THEN "stopped" ELSE status
       ELSE IF status \in {"stopped", "error"} /\ port_up THEN "unmanaged"
            ELSE status

\* The status update_statuses writes for one project; rc is poll()'s result
\* when a handle is held.
update_status(status, proc, rc, port_up) ==
  IF proc # None
  THEN IF rc # None
       THEN IF Val(rc) = 0 THEN "stopped" ELSE "error"
       ELSE IF port_up THEN "running" ELSE "building"
  ELSE IF status = "unmanaged"
       THEN IF ~port_up THEN "stopped" ELSE status
       ELSE IF status = "stopped" /\ port_up THEN "unmanaged" ELSE status

MonEnter ==
  /\ ~Exited
  /\ pc[MonT] = "mon_lock"
  /\ lock = None
  /\ lock' = Some(MonT)
  /\ pc' = [pc EXCEPT ![MonT] = "mon_proj"]
  /\ loc' = [loc EXCEPT ![MonT].i = 1]
  /\ UNCHANGED << processes, statuses, exit_codes, os, ext, timer,
                  sinceGroupSpawn, otherSpawn, nreq, log, had, pvars >>

\* Mutant: the pass respawns an owned process it finds exited.
MonProject_Restarts ==
  /\ ~Exited
  /\ pc[MonT] = "mon_proj"
  /\ loc[MonT].i <= N
  /\ LET id == PROJECTS[loc[MonT].i].id
         proc == processes[id]
         port_up == _port_open(id)
         rc == IF proc = None THEN None ELSE poll(Val(proc)) IN
     IF proc # None /\ rc # None
     THEN /\ os' = [os EXCEPT ![Val(proc)] =
                      [NoProc EXCEPT !.st = "alive", !.proj = id]]
          /\ statuses' = [statuses EXCEPT ![id] = "building"]
          /\ UNCHANGED << exit_codes, processes, otherSpawn >>
     ELSE /\ statuses' = [statuses EXCEPT ![id] =
                            update_status(statuses[id], proc, rc, port_up)]
          /\ UNCHANGED << exit_codes, processes, os, otherSpawn >>
  /\ loc' = [loc EXCEPT ![MonT].i = @ + 1]
  /\ had' = Observe(statuses', exit_codes')
  /\ UNCHANGED << lock, ext, pc, timer, sinceGroupSpawn, nreq, log, pvars >>

\* One iteration of the loop: probe the port, poll the handle (an exited
\* process is reaped: exit code recorded, handle deleted), write the status.
MonProject ==
  /\ ~Exited
  /\ pc[MonT] = "mon_proj"
  /\ loc[MonT].i <= N
  /\ LET id == PROJECTS[loc[MonT].i].id
         proc == processes[id]
         port_up == _port_open(id)
         rc == IF proc = None THEN None ELSE poll(Val(proc)) IN
     /\ IF proc # None /\ rc # None
        THEN /\ exit_codes' = [exit_codes EXCEPT ![id] = rc]
             /\ processes' = [processes EXCEPT ![id] = None]
             /\ os' = [os EXCEPT ![Val(proc)] = Reaped]
             /\ otherSpawn' = NoteRelease(id)
        ELSE UNCHANGED << exit_codes, processes, os, otherSpawn >>
     /\ statuses' = [statuses EXCEPT ![id] =
                       update_status(statuses[id], proc, rc, port_up)]
  /\ loc' = [loc EXCEPT ![MonT].i = @ + 1]
  /\ had' = Observe(statuses', exit_codes')
  /\ UNCHANGED << lock, ext, pc, timer, sinceGroupSpawn, nreq, log, pvars >>

\* End of the pass: the lock is released, then time.sleep(2).
MonLeave ==
  /\ ~Exited
  /\ pc[MonT] = "mon_proj"
  /\ loc[MonT].i > N
  /\ lock' = None
  /\ pc' = [pc EXCEPT ![MonT] = "mon_sleep"]
  /\ loc' = [loc EXCEPT ![MonT] = NoLoc]
  /\ timer' = [timer EXCEPT ![MonT] = 0]
  /\ UNCHANGED << processes, statuses, exit_codes, os, ext, sinceGroupSpawn, otherSpawn, nreq, log, had,
                  pvars >>

MonWake ==
  /\ ~Exited
  /\ pc[MonT] = "mon_sleep"
  /\ timer[MonT] >= MonitorPeriod
  /\ pc' = [pc EXCEPT ![MonT] = "mon_lock"]
  /\ timer' = [timer EXCEPT ![MonT] = 0]
  /\ UNCHANGED << processes, statuses, exit_codes, lock, os, ext, loc,
                  sinceGroupSpawn, otherSpawn, nreq, log, had, pvars >>

\* ------------------------------- start_all / start_group: _staggered()
\* Mutant: the group of an entry is not looked at.
Selects_Any(op, g, i) == TRUE

\* Does the iteration of operation op (on group g) select registry entry i?
Selects(op, g, i) ==
  op \in {"start_all", "stop_all"} \/ PROJECTS[i].group = g

\* Mutant: a stop-all / stop-group request cancels the loops in flight.
BgIter_CancelledByStop(t) ==
  /\ ~Exited
  /\ pc[t] = "bg_iter"
  /\ loc[t].i <= N
  /\ LET i == loc[t].i
         id == PROJECTS[i].id IN
     IF /\ Selects(loc[t].op, loc[t].group, i) /\ statuses[id] = "stopped"
        /\ loc[MainT].op \notin {"stop_all", "stop_group"}
     THEN /\ pc' = [pc EXCEPT ![t] = "start_lock"]
          /\ loc' = [loc EXCEPT ![t].i = i + 1, ![t].id = id,
                                ![t].ret = "none"]
          /\ otherSpawn' = NoteInvoke(t, id)
     ELSE /\ loc' = [loc EXCEPT ![t].i = i + 1, ![t].ret = "none"]
          /\ UNCHANGED << pc, otherSpawn >>
  /\ UNCHANGED << processes, statuses, exit_codes, lock, os, ext, timer,
                  sinceGroupSpawn, nreq, log, had, pvars >>

\* One turn of the for loop: start(pid) if the member is "stopped" (read
\* without the lock), otherwise on to the next entry.
BgIter(t) ==
  /\ ~Exited
  /\ pc[t] = "bg_iter"
  /\ loc[t].i <= N
  /\ LET i == loc[t].i
         id == PROJECTS[i].id IN
     IF Selects(loc[t].op, loc[t].group, i) /\ statuses[id] = "stopped"
     THEN /\ pc' = [pc EXCEPT ![t] = "start_lock"]
          /\ loc' = [loc EXCEPT ![t].i = i + 1, ![t].id = id,
                                ![t].ret = "none"]
          /\ otherSpawn' = NoteInvoke(t, id)
     ELSE /\ loc' = [loc EXCEPT ![t].i = i + 1, ![t].ret = "none"]
          /\ UNCHANGED << pc, otherSpawn >>
  /\ UNCHANGED << processes, statuses, exit_codes, lock, os, ext, timer,
                  sinceGroupSpawn, nreq, log, had, pvars >>

\* Mutant: the loop does not sleep.
SleepOver_Skipped(t) == TRUE

\* time.sleep(1) has elapsed.
SleepOver(t) == timer[t] >= StartDelay

BgWake(t) ==
  /\ ~Exited
  /\ pc[t] = "bg_sleep"
  /\ SleepOver(t)
  /\ pc' = [pc EXCEPT ![t] = "bg_iter"]
  /\ UNCHANGED << processes, statuses, exit_codes, lock, os, ext, loc, timer,
                  sinceGroupSpawn, otherSpawn, nreq, log, had, pvars >>

\* The loop is over: the thread ends.
BgEnd(t) ==
  /\ ~Exited
  /\ pc[t] = "bg_iter"
  /\ loc[t].i > N
  /\ pc' = [pc EXCEPT ![t] = "off"]
  /\ loc' = [loc EXCEPT ![t] = NoLoc]
  /\ timer' = [timer EXCEPT ![t] = 0]
  /\ UNCHANGED << processes, statuses, exit_codes, lock, os, ext,
                  sinceGroupSpawn, otherSpawn, nreq, log, had, pvars >>

\* ------------------------------------------ DashboardHandler.do_POST
\* POST /api/start/{id} and /api/stop/{id}
HttpStart(id) ==
  /\ Runnable(MainT)
  /\ pc[MainT] = "idle"
  /\ nreq < MaxRequests
  /\ nreq' = nreq + 1
  /\ pc' = [pc EXCEPT ![MainT] = "start_lock"]
  /\ loc' = [loc EXCEPT ![MainT] = [NoLoc EXCEPT !.op = "start", !.id = id]]
  /\ otherSpawn' = NoteInvoke(MainT, id)
  /\ UNCHANGED << processes, statuses, exit_codes, lock, os, ext, timer,
                  sinceGroupSpawn,
                  log, had, pvars >>

HttpStop(id) ==
  /\ Runnable(MainT)
  /\ pc[MainT] = "idle"
  /\ nreq < MaxRequests
  /\ nreq' = nreq + 1
  /\ pc' = [pc EXCEPT ![MainT] = "stop_lock"]
  /\ loc' = [loc EXCEPT ![MainT] = [NoLoc EXCEPT !.op = "stop", !.id = id]]
  /\ UNCHANGED << processes, statuses, exit_codes, lock, os, ext, timer,
                  sinceGroupSpawn, otherSpawn,
                  log, had, pvars >>

\* POST /api/start-all and /api/start-group/{group}: a daemon thread is
\* started and the handler answers {"ok": true}.
HttpStartStaggered(op, g) ==
  /\ Runnable(MainT)
  /\ pc[MainT] = "idle"
  /\ nreq < MaxRequests
  /\ nreq' = nreq + 1
  /\ \E t \in Bg :
       /\ pc[t] = "off"
       /\ \A u \in Bg : u < t => pc[u] # "off"
       /\ pc' = [pc EXCEPT ![t] = "bg_iter"]
       /\ loc' = [loc EXCEPT
                    ![t] = [NoLoc EXCEPT !.op = op, !.group = g, !.i = 1]]
  /\ UNCHANGED << processes, statuses, exit_codes, lock, os, ext, timer,
                  sinceGroupSpawn, otherSpawn,
                  log, had, pvars >>

\* POST /api/stop-all and /api/stop-group/{group}: the loop runs in the
\* handler itself.
HttpStopMany(op, g) ==
  /\ Runnable(MainT)
  /\ pc[MainT] = "idle"
  /\ nreq < MaxRequests
  /\ nreq' = nreq + 1
  /\ pc' = [pc EXCEPT ![MainT] = "sa_iter"]
  /\ loc' = [loc EXCEPT
               ![MainT] = [NoLoc EXCEPT !.op = op, !.group = g, !.i = 1]]
  /\ UNCHANGED << processes, statuses, exit_codes, lock, os, ext, timer,
                  sinceGroupSpawn, otherSpawn,
                  log, had, pvars >>

\* stop_all / stop_group: one turn of the for loop.
SaIter ==
  /\ Runnable(MainT)
  /\ pc[MainT] = "sa_iter"
  /\ LET i == loc[MainT].i IN
     IF i > N
     THEN /\ pc' = [pc EXCEPT ![MainT] = "respond"]
          /\ loc' = [loc EXCEPT ![MainT].ret = "true"]
     ELSE LET id == PROJECTS[i].id IN
          IF /\ Selects(loc[MainT].op, loc[MainT].group, i)
             /\ statuses[id] \in {"running", "building", "unmanaged"}
          THEN /\ pc' = [pc EXCEPT ![MainT] = "stop_lock"]
               /\ loc' = [loc EXCEPT ![MainT].i = i + 1, ![MainT].id = id,
                                     ![MainT].ret = "none"]
          ELSE /\ loc' = [loc EXCEPT ![MainT].i = i + 1,
                                     ![MainT].ret = "none"]
               /\ UNCHANGED pc
  /\ UNCHANGED << processes, statuses, exit_codes, lock, os, ext, timer,
                  sinceGroupSpawn, otherSpawn, nreq, log, had, pvars >>

\* _json_response({"ok": ok}); the server takes the next request.
Respond ==
  /\ Runnable(MainT)
  /\ pc[MainT] = "respond"
  /\ pc' = [pc EXCEPT ![MainT] = "idle"]
  /\ loc' = [loc EXCEPT ![MainT] = NoLoc]
  /\ UNCHANGED << processes, statuses, exit_codes, lock, os, ext, timer,
                  sinceGroupSpawn, otherSpawn, nreq, log, had, pvars >>

\* --------------------------------- main(): on_signal, shutdown, exit
\* GET /api/status: get_status_json() begins with every count at 0 and
\* an empty projects map.
HttpStatus ==
  /\ Runnable(MainT)
  /\ pc[MainT] = "idle"
  /\ nreq < MaxRequests
  /\ nreq' = nreq + 1
  /\ pc' = [pc EXCEPT ![MainT] = "fetch_status"]
  /\ loc' = [loc EXCEPT ![MainT] =
               [NoLoc EXCEPT !.op = "status", !.i = 1,
                             !.counts = [s \in Status |-> 0]]]
  /\ UNCHANGED << processes, statuses, exit_codes, lock, os, ext, timer,
                  sinceGroupSpawn, otherSpawn, log, had, pvars >>

\* status = self.statuses.get(pid, "stopped"), read without the lock.
FetchStatus ==
  /\ Runnable(MainT)
  /\ pc[MainT] = "fetch_status"
  /\ loc[MainT].i <= N
  /\ pc' = [pc EXCEPT ![MainT] = "fetch_exit"]
  /\ loc' = [loc EXCEPT ![MainT].status = statuses[FetchId]]
  /\ had' = {exit_codes[FetchId]}
  /\ UNCHANGED << processes, statuses, exit_codes, lock, os, ext, timer,
                  sinceGroupSpawn, otherSpawn, nreq, log, pvars >>

\* Mutant: the count uses a second read of the status map.
CountedStatus_Reread(status, id) == statuses[id]

\* The status that counts[status] += 1 counts for the entry being built.
CountedStatus(status, id) == status

\* The entry of one project in the response.
Entry(id, status) ==
  [id |-> id, status |-> status, exitCode |-> exit_codes[id]]

\* counts[status] += 1 and projects[pid] = {..., "status": status,
\* "exitCode": self.exit_codes.get(pid)}, the exit code read without the
\* lock; then the next project.
FetchExit ==
  /\ Runnable(MainT)
  /\ pc[MainT] = "fetch_exit"
  /\ LET id == FetchId
         status == loc[MainT].status
         counted == CountedStatus(status, id) IN
     loc' = [loc EXCEPT
               ![MainT].counts = [@ EXCEPT ![counted] = @ + 1],
               ![MainT].projects = Append(@, Entry(id, status)),
               ![MainT].status = "",
               ![MainT].i = @ + 1]
  /\ pc' = [pc EXCEPT ![MainT] = "fetch_status"]
  /\ had' = {}
  /\ UNCHANGED << processes, statuses, exit_codes, lock, os, ext, timer,
                  sinceGroupSpawn, otherSpawn, nreq, log, pvars >>

\* return {"counts": counts, "projects": projects, ...}: the response is
\* ready to be sent.
FetchReturn ==
  /\ Runnable(MainT)
  /\ pc[MainT] = "fetch_status"
  /\ loc[MainT].i > N
  /\ pc' = [pc EXCEPT ![MainT] = "respond"]
  /\ UNCHANGED << processes, statuses, exit_codes, lock, os, ext, loc, timer,
                  sinceGroupSpawn, otherSpawn, nreq, log, had, pvars >>

NextFetch == FetchStatus \/ FetchExit \/ FetchReturn

\* list(self.processes.keys()), read without the lock.
RECURSIVE KeysFrom(_)
KeysFrom(i) ==
  IF i > N THEN << >>
  ELSE IF processes[PROJECTS[i].id] # None
       THEN << PROJECTS[i].id >> \o KeysFrom(i + 1)
       ELSE KeysFrom(i + 1)

\* shutdown() begins in frame `op`: the keys are snapshotted and the loop
\* calls stop() on the first one; with no keys it returns at once.
ShutdownBegin(op, keys) ==
  IF keys = << >>
  THEN /\ pc' = [pc EXCEPT ![SigT] = "sd_ret"]
       /\ loc' = [loc EXCEPT ![SigT] = [NoLoc EXCEPT !.op = op]]
  ELSE /\ pc' = [pc EXCEPT ![SigT] = "stop_lock"]
       /\ loc' = [loc EXCEPT ![SigT] =
                    [NoLoc EXCEPT !.op = op, !.keys = keys, !.i = 2,
                                  !.id = keys[1]]]

\* SIGINT/SIGTERM arrives: on_signal runs on the main thread, on top of
\* whatever frame the main thread is in, and calls manager.shutdown().
Signal ==
  /\ pc[SigT] = "none"
  /\ ShutdownBegin("on_signal", KeysFrom(1))
  /\ UNCHANGED << processes, statuses, exit_codes, lock, os, ext, timer,
                  sinceGroupSpawn, otherSpawn, nreq, log, had, pvars >>

\* for pid in keys: self.stop(pid) - the next turn of the loop, or the
\* return of shutdown() after the last one.
ShutdownIter ==
  /\ pc[SigT] = "sd_iter"
  /\ LET i == loc[SigT].i IN
     IF i <= Len(loc[SigT].keys)
     THEN /\ pc' = [pc EXCEPT ![SigT] = "stop_lock"]
          /\ loc' = [loc EXCEPT ![SigT].i = i + 1,
                                ![SigT].id = loc[SigT].keys[i],
                                ![SigT].ret = "none"]
     ELSE /\ pc' = [pc EXCEPT ![SigT] = "sd_ret"]
          /\ loc' = [loc EXCEPT
                       ![SigT] = [NoLoc EXCEPT !.op = loc[SigT].op]]
  /\ UNCHANGED << processes, statuses, exit_codes, lock, os, ext, timer,
                  sinceGroupSpawn, otherSpawn, nreq, log, had, pvars >>

\* on_signal: sys.exit(0). SystemExit unwinds the interrupted frame (a
\* "with self.lock" block it was in releases the lock) and serve_forever;
\* the finally clause of main() then calls shutdown() again.
SysExit ==
  /\ pc[SigT] = "sd_ret"
  /\ loc[SigT].op = "on_signal"
  /\ pc' = [pc EXCEPT ![SigT] = "sd_final", ![MainT] = "dead"]
  /\ loc' = [loc EXCEPT ![SigT] = [NoLoc EXCEPT !.op = "finally"],
                        ![MainT] = NoLoc]
  /\ lock' = IF lock = Some(MainT) THEN None ELSE lock
  /\ timer' = [timer EXCEPT ![MainT] = 0]
  /\ otherSpawn' = [otherSpawn EXCEPT ![MainT] = "none"]
  /\ UNCHANGED << processes, statuses, exit_codes, os, ext, sinceGroupSpawn, nreq, log, had,
                  pvars >>

\* finally: manager.shutdown()
FinalShutdown ==
  /\ pc[SigT] = "sd_final"
  /\ ShutdownBegin("finally", KeysFrom(1))
  /\ UNCHANGED << processes, statuses, exit_codes, lock, os, ext, timer,
                  sinceGroupSpawn, otherSpawn, nreq, log, had, pvars >>

\* main() returns: the interpreter exits and the daemon threads with it.
ProcessExit ==
  /\ pc[SigT] = "sd_ret"
  /\ loc[SigT].op = "finally"
  /\ pc' = [pc EXCEPT ![SigT] = "exited"]
  /\ UNCHANGED << processes, statuses, exit_codes, lock, os, ext, loc, timer,
                  sinceGroupSpawn, otherSpawn, nreq, log, had, pvars >>

\* ---------------------------------------------------------------- Next
Callers == {MainT, SigT} \cup Bg

\* The clock and the children's own exits.
NextEnv ==
  \/ Tick
  \/ \E k \in Pids, rc \in SelfExitCodes : ChildExit(k, rc)

NextExt ==
  \/ \E id \in Ids : ExtBind(id)
  \/ \E id \in Ids : ExtRelease(id)

NextStart ==
  \/ \E t \in Callers : StartEnter(t)
  \/ \E t \in Callers : StartCheck(t)

NextStop ==
  \/ \E t \in Callers : StopEnter(t)
  \/ \E t \in Callers : StopWaitExited(t)
  \/ \E t \in Callers : StopWaitTimeout(t)

NextMonitor ==
  \/ MonEnter
  \/ MonProject
  \/ MonLeave
  \/ MonWake

NextStaggered ==
  \/ HttpStartStaggered("start_all", "")
  \/ \E g \in Groups : HttpStartStaggered("start_group", g)
  \/ \E t \in Bg : BgIter(t)
  \/ \E t \in Bg : BgWake(t)
  \/ \E t \in Bg : BgEnd(t)

NextStopMany ==
  \/ HttpStopMany("stop_all", "")
  \/ \E g \in Groups : HttpStopMany("stop_group", g)
  \/ SaIter

NextShutdown ==
  \/ Signal
  \/ ShutdownIter
  \/ SysExit
  \/ FinalShutdown
  \/ ProcessExit

\* Single-project operation: the operator starts and stops projects one
\* at a time while the reconciler runs and ports come and go.
Next ==
  \/ NextEnv
  \/ NextExt
  \/ \E k \in Pids : ChildListen(k)
  \/ \E k \in Pids : ChildKilled(k)
  \/ NextStart
  \/ NextStop
  \/ NextMonitor
  \/ \E id \in ReqIds : HttpStart(id)
  \/ \E id \in ReqIds : HttpStop(id)
  \/ Respond

Spec == Init /\ [][Next]_vars

\* Group starts: the threads of /api/start-group requests beside single
\* starts and the reconciler.
NextGroup ==
  \/ NextEnv
  \/ NextStart
  \/ NextMonitor
  \/ \E g \in Groups : HttpStartStaggered("start_group", g)
  \/ \E t \in Bg : BgIter(t)
  \/ \E t \in Bg : BgWake(t)
  \/ \E t \in Bg : BgEnd(t)
  \/ \E id \in Ids : HttpStart(id)
  \/ Respond

SpecGroup == InitFree /\ [][NextGroup]_vars

\* Teardown: a termination signal while requests and a staggered start
\* are in progress.
NextTeardown ==
  \/ NextEnv
  \/ \E k \in Pids : ChildKilled(k)
  \/ NextStart
  \/ NextStop
  \/ HttpStartStaggered("start_all", "")
  \/ \E t \in Bg : BgIter(t)
  \/ \E t \in Bg : BgWake(t)
  \/ \E t \in Bg : BgEnd(t)
  \/ NextShutdown
  \/ \E id \in Ids : HttpStop(id)
  \/ Respond

SpecTeardown == InitFree /\ [][NextTeardown]_vars

\* Bulk stops: stop-all / stop-group requests beside single starts while
\* the reconciler runs and ports come and go.
NextBulk ==
  \/ NextEnv
  \/ NextExt
  \/ \E k \in Pids : ChildListen(k)
  \/ \E k \in Pids : ChildKilled(k)
  \/ NextStart
  \/ NextStop
  \/ NextMonitor
  \/ \E id \in Ids : HttpStart(id)
  \/ NextStopMany
  \/ Respond

SpecBulk == Init /\ [][NextBulk]_vars

\* Status fetches: GET /api/status served while single starts and stops
\* and the reconciler run.
NextStatus ==
  \/ NextEnv
  \/ NextStart
  \/ NextStop
  \/ NextMonitor
  \/ \E id \in Ids : HttpStart(id)
  \/ \E id \in Ids : HttpStop(id)
  \/ HttpStatus
  \/ NextFetch
  \/ Respond

SpecStatus == InitFree /\ [][NextStatus]_vars

\* The dashboard comes up while something else serves the first port.
InitFirstTaken == InitWith({[p \in Ids |-> p = PROJECTS[1].id]})

\* Whole life of the dashboard: single starts and stops and the reconciler
\* until a termination signal shuts the supervisor down.
NextLife ==
  \/ NextEnv
  \/ \E k \in Pids : ChildKilled(k)
  \/ NextStart
  \/ NextStop
  \/ NextMonitor
  \/ \E id \in Ids : HttpStart(id)
  \/ \E id \in Ids : HttpStop(id)
  \/ Respond
  \/ NextShutdown

SpecLife == InitFree /\ [][NextLife]_vars

\* The issue poller on its own, beside an idle dashboard.
SpecPoller == InitFree /\ [][NextPoller]_vars

\* Logs: children write their output while projects are started again
\* after they exited.
NextLog ==
  \/ NextEnv
  \/ \E k \in Pids : ChildWrite(k)
  \/ NextStart
  \/ NextMonitor
  \/ \E id \in Ids : HttpStart(id)
  \/ Respond

SpecLog == InitFree /\ [][NextLog]_vars

\* Bulk operations: start-all / start-group threads beside stop-all /
\* stop-group requests, for groups with and without tracked members;
\* children run until they are signalled.
NextMany ==
  \/ Tick
  \/ \E k \in Pids : ChildListen(k)
  \/ \E k \in Pids : ChildKilled(k)
  \/ NextStart
  \/ NextStop
  \/ NextMonitor
  \/ HttpStartStaggered("start_all", "")
  \/ \E g \in ReqGroups : HttpStartStaggered("start_group", g)
  \/ \E t \in Bg : BgIter(t)
  \/ \E t \in Bg : BgWake(t)
  \/ \E t \in Bg : BgEnd(t)
  \/ HttpStopMany("stop_all", "")
  \/ \E g \in ReqGroups : HttpStopMany("stop_group", g)
  \/ SaIter
  \/ Respond

SpecMany == InitFirstTaken /\ [][NextMany]_vars

\* ===================================================================
\* Properties
\* ===================================================================
\* Thread t, inside start(id), spawns a process in this step.
Spawns(t, id) ==
  /\ pc[t] = "start_check" /\ loc[t].id = id
  /\ \E k \in Pids : os[k].st = "none" /\ os'[k].st = "alive"

\* Thread t leaves the body of start() in this step.
StartReturns(t) == pc[t] = "start_check" /\ pc'[t] # "start_check"

\* The reconciliation pass handles project id in this step.
TickOn(id) ==
  /\ pc[MonT] = "mon_proj" /\ loc[MonT].i <= N
  /\ PROJECTS[loc[MonT].i].id = id
  /\ loc'[MonT].i = loc[MonT].i + 1

\* C1 (as stated): of the start(id) calls in flight at the same time at
\* most one spawns: a call never spawns when a call that overlapped it has
\* spawned a process for the same id.
C1_AtMostOneSpawns ==
  [][\A t \in Callers : \A id \in Ids :
       Spawns(t, id) => otherSpawn[t] = "none"]_vars

\* C1 (amended): a start(id) call that reaches its check while the process
\* spawned by an overlapping call is still owned (its handle not released by
\* a reconciliation tick or a stop) returns false and spawns nothing.
C1_OneOwnedSpawn ==
  [][\A t \in Callers :
       (StartReturns(t) /\ otherSpawn[t] = "spawned")
         => (loc'[t].ret = "false" /\ os' = os /\ processes' = processes)]_vars

\* Two start calls on one id overlap, the first has spawned, and the second
\* holds the lock and is about to decide.
C1_Witness ==
  \E t \in Callers :
    /\ pc[t] = "start_check" /\ otherSpawn[t] = "spawned"
    /\ loc[t].id \in Ids /\ processes[loc[t].id] # None

\* C2: between operations (the lock is free) a project has an owned handle
\* only if its status is building or running.
C2_HandleOnlyWhenActive ==
  lock = None =>
    \A id \in Ids :
      processes[id] # None => statuses[id] \in {"building", "running"}

\* A project is owned and running while no operation is in progress.
C2_Witness ==
  /\ lock = None
  /\ \E id \in Ids : processes[id] # None /\ statuses[id] = "running"

\* C3: start(id) never spawns for a project that has an owned handle, nor
\* while an external process occupies the project's port.
C3_NoSpawnWhenOccupied ==
  [][\A t \in Callers : \A id \in Ids :
       Spawns(t, id) => (processes[id] = None /\ ~ext[id])]_vars

\* C4: a tick that finds the owned process exited releases the handle and
\* records the exit code; code 0 gives "stopped", any other code "error".
C4_ExitReconciled ==
  [][\A id \in Ids :
       (TickOn(id) /\ processes[id] # None
          /\ os[Val(processes[id])].st = "exited")
       => LET c == os[Val(processes[id])].rc IN
          /\ processes'[id] = None
          /\ exit_codes'[id] = Some(c)
          /\ statuses'[id] = IF c = 0 THEN "stopped" ELSE "error"]_vars

\* A tick has recorded exit code 7 as status "error".
C4_Witness ==
  \E id \in Ids :
    /\ processes[id] = None
    /\ exit_codes[id] = Some(7)
    /\ statuses[id] = "error"

\* C5: with no owned handle, a tick that probes a stopped project whose port
\* an external process holds writes "unmanaged", and a tick that probes an
\* unmanaged project whose port is not live writes "stopped".
C5_UnmanagedDetection ==
  [][\A id \in Ids :
       (TickOn(id) /\ processes[id] = None)
       => /\ (statuses[id] = "stopped" /\ ext[id])
               => statuses'[id] = "unmanaged"
          /\ (statuses[id] = "unmanaged" /\ ~_port_open(id))
               => statuses'[id] = "stopped"]_vars

\* The tick is about to probe an unmanaged project whose external process
\* has released the port.
C5_Witness ==
  \E id \in Ids :
    /\ pc[MonT] = "mon_proj" /\ loc[MonT].i <= N
    /\ PROJECTS[loc[MonT].i].id = id
    /\ processes[id] = None
    /\ statuses[id] = "unmanaged" /\ ~_port_open(id)

\* The state-transition table of the reconciler, row by row. rc is the exit
\* code of the owned process (None while it runs). Rows the table does not
\* list (no handle, status building or running) give "-".
TransitionTable(status, owned, rc, live) ==
  CASE owned /\ rc = Some(0) -> "stopped"
    [] owned /\ rc # None /\ rc # Some(0) -> "error"
    [] owned /\ rc = None /\ live -> "running"
    [] owned /\ rc = None /\ ~live -> "building"
    [] ~owned /\ status = "unmanaged" /\ ~live -> "stopped"
    [] ~owned /\ status = "unmanaged" /\ live -> "unmanaged"
    [] ~owned /\ status = "stopped" /\ live -> "unmanaged"
    [] ~owned /\ status = "stopped" /\ ~live -> "stopped"
    [] ~owned /\ status = "error" -> "error"
    [] OTHER -> "-"

\* C6: the status a tick writes for a project is the one the transition
\* table gives for (status, owned handle, exit code, port live).
C6_TickFollowsTable ==
  [][\A id \in Ids :
       TickOn(id) =>
         LET owned == processes[id] # None
             rc == IF owned THEN poll(Val(processes[id])) ELSE None
             row == TransitionTable(statuses[id], owned, rc, _port_open(id))
         IN row # "-" => statuses'[id] = row]_vars

\* A tick is about to handle an owned, live process whose port is open
\* while the recorded status is still "building".
C6_Witness ==
  \E id \in Ids :
    /\ pc[MonT] = "mon_proj" /\ loc[MonT].i <= N
    /\ PROJECTS[loc[MonT].i].id = id
    /\ processes[id] # None /\ poll(Val(processes[id])) = None
    /\ statuses[id] = "building" /\ _port_open(id)

\* shutdown() returns in this step.
ShutdownReturns == pc[SigT] # "sd_ret" /\ pc'[SigT] = "sd_ret"

\* A spawned process that is alive and was never sent SIGTERM.
Unsignalled(k) == os[k].st = "alive" /\ ~os[k].term

\* C7: when shutdown() returns no project retains an owned handle and every
\* spawned process still alive has been sent the graceful signal.
C7_ShutdownComplete ==
  [][ShutdownReturns =>
       /\ \A id \in Ids : processes'[id] = None
       /\ \A k \in Pids : ~Unsignalled(k)']_vars

\* The signal handler waits for the lock that the frame it interrupted holds.
SelfDeadlock == pc[SigT] = "stop_lock" /\ lock = Some(MainT)

\* C8: after a termination signal shutdown never waits forever on the lock,
\* and the supervisor exits with no live child it has not at least killed.
C8_ShutdownTerminates ==
  /\ ~SelfDeadlock
  /\ Exited => \A k \in Pids : os[k].st = "alive" => os[k].kill

\* C9: within one start_all / start_group run the start() invocations come
\* one after the other, and an invocation that follows an earlier one comes
\* at least StartDelay after the earlier one returned.
C9_StaggeredStarts ==
  [][\A t \in Bg :
       (pc[t] = "bg_iter" /\ pc'[t] = "start_lock" /\ loc[t].again)
         => timer[t] >= StartDelay]_vars

\* A staggered run has issued a start() invocation after an earlier one.
C9_Witness == \E t \in Bg : pc[t] = "start_lock" /\ loc[t].again

\* C10: no two spawns made by group/bulk start operations, of the same or
\* of different requests, are less than StartDelay apart.
C10_NoOverlappingBuilds ==
  [][\A t \in Bg : \A id \in Ids :
       Spawns(t, id) => sinceGroupSpawn >= StartDelay]_vars

\* ------------------------------------------------ start(): the outcomes
\* Thread t's start()/stop() call returns val in this step.
Returns(t, val) == pc'[t] = RetPc(t) /\ loc'[t].ret = val

\* The project of t's call is registered and start() may go ahead with it.
Startable(t) ==
  loc[t].id \in Ids /\ statuses[loc[t].id] \in {"stopped", "error"}

\* C11: start(id) for an unknown id, or for a project that is running,
\* building or unmanaged, returns false, spawns nothing and changes no
\* project's status, handle or exit code.
C11_RefusedStartIsNoOp ==
  [][\A t \in Callers :
       (/\ StartReturns(t)
        /\ \/ loc[t].id \notin Ids
           \/ statuses[loc[t].id] \in {"running", "building", "unmanaged"})
         => /\ Returns(t, "false")
            /\ UNCHANGED << processes, statuses, exit_codes, os >>]_vars

\* start() has just refused a project whose port someone else holds.
C11_Witness ==
  /\ pc[MainT] = "respond" /\ loc[MainT].op = "start"
  /\ loc[MainT].ret = "false"
  /\ loc[MainT].id \in Ids /\ statuses[loc[MainT].id] = "unmanaged"

\* C12: start(id) on a stopped or error project whose directory has neither
\* marker file sets the status to error, returns false, spawns no process
\* and records no handle.
C12_MissingMarker ==
  [][\A t \in Callers :
       (StartBody(t, FALSE, "ok") /\ Startable(t))
         => /\ Returns(t, "false")
            /\ statuses' = [statuses EXCEPT ![loc[t].id] = "error"]
            /\ UNCHANGED << processes, exit_codes, os >>]_vars

\* start() has failed on a project for which nothing was ever spawned.
C12_Witness ==
  /\ pc[MainT] = "respond" /\ loc[MainT].op = "start"
  /\ loc[MainT].ret = "false"
  /\ loc[MainT].id \in Ids /\ statuses[loc[MainT].id] = "error"
  /\ \A k \in Pids : os[k].st = "none"

\* C13: when Popen fails, whether the executable is missing or the OS
\* refuses to create the process, start() sets the status to error, returns
\* false and records no handle.
C13_SpawnFailure ==
  [][\A t \in Callers : \A popen \in {"notfound", "oserror"} :
       (StartBody(t, TRUE, popen) /\ Startable(t))
         => /\ Returns(t, "false")
            /\ statuses'[loc[t].id] = "error"
            /\ processes'[loc[t].id] = None]_vars

\* C14: a start() that passes the checks and whose Popen succeeds returns
\* true and leaves the project with the new handle, status building and an
\* empty exit code.
C14_StartSuccess ==
  [][\A t \in Callers :
       (StartBody(t, TRUE, "ok") /\ Startable(t))
         => LET id == loc[t].id IN
            /\ Returns(t, "true")
            /\ processes'[id] # None
            /\ os[Val(processes'[id])].st = "none"
            /\ os'[Val(processes'[id])].st = "alive"
            /\ os'[Val(processes'[id])].proj = id
            /\ statuses'[id] = "building"
            /\ exit_codes'[id] = None]_vars

\* start() has succeeded for a project after an earlier process was reaped.
C14_Witness ==
  /\ pc[MainT] = "respond" /\ loc[MainT].op = "start"
  /\ loc[MainT].ret = "true"
  /\ loc[MainT].id \in Ids /\ statuses[loc[MainT].id] = "building"
  /\ processes[loc[MainT].id] # None /\ exit_codes[loc[MainT].id] = None
  /\ \E k \in Pids : os[k].st = "reaped"

\* ------------------------------------------------- stop(): the outcomes
\* Process k is sent the forceful kill in this step.
KillSent(k) == ~os[k].kill /\ os'[k].kill

\* C15: stop(id) with an owned handle first sends the graceful signal to the
\* process group; the forceful kill is sent only to a process that was sent
\* the graceful signal, by a stop() whose grace period of StopGrace has
\* run out, and only if the process has not exited.
C15_GracefulThenForced ==
  [][/\ \A t \in Callers :
          (pc[t] = "stop_lock" /\ pc'[t] = "stop_wait")
            => LET k == Val(loc'[t].proc) IN
               /\ ~KillSent(k)
               /\ os[k].st = "alive" => os'[k].term
     /\ \A k \in Pids :
          KillSent(k)
            => /\ os[k].term
               /\ os[k].st = "alive"
               /\ \E t \in Callers :
                    /\ pc[t] = "stop_wait" /\ loc[t].proc = Some(k)
                    /\ timer[t] >= StopGrace]_vars

\* A process outlived the grace period and was sent the forceful kill.
C15_Witness ==
  \E k \in Pids : os[k].st = "alive" /\ os[k].term /\ os[k].kill

\* Thread t's stop() of an owned process comes to its end in this step.
OwnedStopEnds(t) == pc[t] = "stop_wait" /\ pc'[t] # "stop_wait"

\* C16: stop(id) with an owned handle returns true and leaves the project
\* with no handle, status stopped and the exit code of the terminated
\* process, whether it exited within the grace period or was killed.
C16_StopRecordsExit ==
  [][\A t \in Callers :
       OwnedStopEnds(t)
         => LET id == loc[t].id
                k == Val(loc[t].proc) IN
            /\ Returns(t, "true")
            /\ processes'[id] = None
            /\ statuses'[id] = "stopped"
            /\ exit_codes'[id] # None
            /\ os[k].st = "exited" => exit_codes'[id] = Some(os[k].rc)]_vars

\* Thread t's stop() takes the branch without a handle in this step.
UnownedStop(t) ==
  /\ pc[t] = "stop_lock" /\ pc'[t] # "stop_lock"
  /\ loc[t].id \in Ids => processes[loc[t].id] = None

C18_StopStoppedIsNoOp ==
  [][\A t \in Callers :
       (/\ UnownedStop(t)
        /\ \/ loc[t].id \notin Ids
           \/ statuses[loc[t].id] \in {"stopped", "error"})
         => /\ Returns(t, "false")
            /\ UNCHANGED << processes, statuses, exit_codes, os >>]_vars

\* stop() has returned false for a registered project that is stopped.
C18_Witness ==
  /\ pc[MainT] = "respond" /\ loc[MainT].op = "stop"
  /\ loc[MainT].ret = "false"
  /\ loc[MainT].id \in Ids /\ statuses[loc[MainT].id] = "stopped"

\* ------------------------------------------------------- abnormal exits
\* The handle of project id is released in this step, and the process it
\* held had exited on its own (no signal was sent to it) with a code that
\* is not zero.
ReleasesFailed(id) ==
  /\ processes[id] # None /\ processes'[id] = None
  /\ LET k == Val(processes[id]) IN
     os[k].st = "exited" /\ os[k].rc > 0 /\ ~os[k].term

\* C19 (as stated): an owned process that exits on its own with a non-zero
\* code is surfaced as status error with that exit code, and is never
\* recorded as stopped.
C19_FailureIsError ==
  [][\A id \in Ids :
       ReleasesFailed(id)
         => /\ statuses'[id] = "error"
            /\ exit_codes'[id] = Some(os[Val(processes[id])].rc)]_vars

\* C19 (amended): the code of such a process is always recorded when its
\* handle is released; the status is error when a reconciliation tick
\* releases the handle, and stopped only when a stop(id) call that got to
\* the handle first releases it.
C19_FailureRecorded ==
  [][\A id \in Ids :
       ReleasesFailed(id)
         => /\ exit_codes'[id] = Some(os[Val(processes[id])].rc)
            /\ \/ TickOn(id) /\ statuses'[id] = "error"
               \/ /\ statuses'[id] = "stopped"
                  /\ \E t \in Callers :
                       OwnedStopEnds(t) /\ loc[t].id = id]_vars

\* A stop() has recorded a project whose process had failed as stopped.
C19_Witness ==
  \E id \in Ids :
    /\ processes[id] = None
    /\ exit_codes[id] = Some(7)
    /\ statuses[id] = "stopped"

\* Thread t's start(id) acts on project id in this step.
StartActs(t, id) == StartReturns(t) /\ loc[t].id = id

\* C20: a project whose status is error keeps it through reconciliation
\* ticks (whatever the port does), stop calls and stop-all / stop-group
\* operations; the status changes only in a step of a start(id) call on
\* that project.
C20_ErrorIsSticky ==
  [][\A id \in Ids :
       (statuses[id] = "error" /\ statuses'[id] # "error")
         => \E t \in Callers : StartActs(t, id)]_vars

\* A tick has passed over a project in error whose port is live.
C20_Witness ==
  \E i \in 1..N :
    /\ pc[MonT] = "mon_proj" /\ loc[MonT].i > i
    /\ statuses[PROJECTS[i].id] = "error"
    /\ _port_open(PROJECTS[i].id)

\* The status fetch completes the entry of a project in this step.
Reports(id) ==
  /\ pc[MainT] = "fetch_exit" /\ pc'[MainT] = "fetch_status"
  /\ FetchId = id

\* C21: the (status, exitCode) pair a status fetch returns for a project
\* is a pair the project had at one instant: the exit code it reports is
\* one the project had together with the reported status since that
\* status was read.
C21_NoTornRead ==
  [][\A id \in Ids : Reports(id) => exit_codes[id] \in had]_vars

\* The threads inside the state-mutating section of start(), stop() or
\* the reconciliation pass.
InSection ==
  {t \in Threads : pc[t] \in {"start_check", "stop_wait", "mon_proj"}}

\* Thread t, and no other thread, takes this step.
StepOf(t) ==
  /\ pc'[t] # pc[t] \/ loc'[t] # loc[t]
  /\ \A u \in Threads \ {t} : pc'[u] = pc[u] /\ loc'[u] = loc[u]

\* The handle, status or exit code of some project is written in this step.
Mutates ==
  processes' # processes \/ statuses' # statuses \/ exit_codes' # exit_codes

\* C22: start, stop and the reconciliation pass are mutually exclusive
\* and atomic: at most one thread is inside a state-mutating section, it
\* is the holder of the lock, and every write of a handle, status or exit
\* code is made by the holder (or by a call that enters, writes and leaves
\* in one go while nobody holds the lock), so the sections take effect one
\* after another in the order in which the lock was taken.
C22_MutuallyExclusive ==
  /\ [](/\ Cardinality(InSection) <= 1
        /\ \A t \in Threads : t \in InSection <=> lock = Some(t))
  /\ [][Mutates => \E t \in Threads :
                     StepOf(t) /\ lock \in {None, Some(t)}]_vars

\* The reconciliation pass is in its section while a start or stop request
\* for a project waits for the lock.
C22_Witness ==
  /\ lock = Some(MonT)
  /\ pc[MonT] = "mon_proj"
  /\ pc[MainT] \in {"start_lock", "stop_lock"}

BulkOps == {"start_all", "start_group", "stop_all", "stop_group"}

\* C23: startGroup, stopGroup, startAll and stopAll return to the caller
\* at once and iterate on a background task: the thread that serves the
\* request never runs a member's start or stop itself, so it never waits
\* out a stop grace period or a start delay.
C23_BulkReturnsAtOnce ==
  ~(/\ loc[MainT].op \in BulkOps
    /\ pc[MainT] \in StartPcs \cup StopPcs \cup {"bg_sleep"})

\* Registry entry i belongs to what operation op on group g ranges over.
Member(op, g, i) ==
  op \in {"start_all", "stop_all"} \/ PROJECTS[i].group = g

\* Thread t calls start() or stop() (entry pc p) on project id in this step.
Invokes(t, p, id) == pc[t] # p /\ pc'[t] = p /\ loc'[t].id = id

\* C24: a start-group / start-all iteration visits the registry in order
\* and calls start on an entry exactly when the entry belongs to the
\* group (any entry for start-all) and its status is stopped when the
\* iteration reaches it; a stop-group / stop-all iteration calls stop on
\* exactly the members whose status is running, building or unmanaged; a
\* group without members starts and stops nothing.
C24_BulkSelection ==
  [][/\ \A t \in Bg : pc[t] = "bg_iter" /\ pc'[t] # "off" /\ loc'[t] # loc[t] =>
          LET i == loc[t].i
              id == PROJECTS[i].id IN
          /\ loc'[t].i = i + 1
          /\ Invokes(t, "start_lock", id) <=>
               (Member(loc[t].op, loc[t].group, i) /\ statuses[id] = "stopped")
          /\ pc'[t] \in {"bg_iter", "start_lock"}
     /\ \A t \in Bg : pc'[t] = "start_lock" /\ pc[t] # "start_lock" =>
          pc[t] = "bg_iter"
     /\ pc[MainT] = "sa_iter" /\ loc[MainT].i <= N /\ loc'[MainT] # loc[MainT] =>
          LET i == loc[MainT].i
              id == PROJECTS[i].id IN
          /\ loc'[MainT].i = i + 1
          /\ Invokes(MainT, "stop_lock", id) <=>
               /\ Member(loc[MainT].op, loc[MainT].group, i)
               /\ statuses[id] \in {"running", "building", "unmanaged"}
          /\ pc'[MainT] \in {"sa_iter", "stop_lock"}
     /\ pc'[MainT] = "stop_lock" /\ pc[MainT] # "stop_lock" =>
          pc[MainT] = "sa_iter"]_vars

\* A start-group thread has called start on a member while a stop-group
\* request calls stop on a member.
C24_Witness ==
  /\ \E t \in Bg : pc[t] = "start_lock" /\ loc[t].op = "start_group"
  /\ pc[MainT] = "stop_lock" /\ loc[MainT].op = "stop_group"

\* C25: while a project has an owned handle its exit code is empty; the
\* exit code becomes non-empty only when the handle of a terminated owned
\* process is released, as the exit code of that process, and it stays
\* until the next spawn for the project empties it.
C25_ExitCodeOfLastRun ==
  /\ [](\A id \in Ids : processes[id] # None => exit_codes[id] = None)
  /\ [][\A id \in Ids : exit_codes'[id] # exit_codes[id] =>
          IF exit_codes'[id] = None
          THEN processes[id] = None /\ processes'[id] # None
          ELSE /\ processes[id] # None /\ processes'[id] = None
               /\ os[Val(processes[id])].st = "exited"
               /\ exit_codes'[id] = Some(os[Val(processes[id])].rc)]_vars

\* A start is about to spawn for a project that carries the exit code of
\* its previous run.
C25_Witness ==
  \E id \in Ids :
    /\ exit_codes[id] # None
    /\ pc[MainT] = "start_check" /\ loc[MainT].id = id
    /\ ~StartRefused(statuses[id])

\* Sequence a is a prefix of sequence b.
IsPrefix(a, b) == Len(a) <= Len(b) /\ SubSeq(b, 1, Len(a)) = a

\* C26: a project's log is append-only: after every step the log has the
\* earlier log as a prefix; in particular a later start of the project
\* removes nothing.
C26_LogAppendOnly ==
  [][\A id \in Ids : IsPrefix(log[id], log'[id])]_vars

\* C27: at initialization every registered project has no handle, an
\* empty exit code, and status unmanaged if its port accepts a connection
\* at that moment and stopped otherwise (so none starts in building,
\* running or error); every project has exactly one runtime state, then
\* and ever after.
C27_InitialState ==
  /\ \A id \in Ids :
       /\ processes[id] = None
       /\ exit_codes[id] = None
       /\ statuses[id] = IF _port_open(id) THEN "unmanaged" ELSE "stopped"
  /\ [](/\ DOMAIN processes = Ids
        /\ DOMAIN statuses = Ids
        /\ DOMAIN exit_codes = Ids)

\* The supervisor has just been constructed while something else listens
\* on a tracked port and another tracked port is free.
C27_Witness ==
  /\ nreq = 0 /\ pc[MonT] = "mon_lock" /\ pc[MainT] = "idle"
  /\ \A t \in Threads : timer[t] = 0
  /\ \E id \in Ids : ext[id] /\ statuses[id] = "unmanaged"
  /\ \E id \in Ids : ~ext[id] /\ statuses[id] = "stopped"

\* C28: a project left in error by a failed start can be retried: with
\* the marker present and the spawn succeeding, start(id) from status
\* error returns true and sets status building; and when the process it
\* spawned is alive and has opened the port, the next reconciliation tick
\* on the project reports running.
C28_RetryAfterError ==
  [][/\ \A t \in Callers :
          (/\ StartBody(t, TRUE, "ok")
           /\ loc[t].id \in Ids
           /\ statuses[loc[t].id] = "error")
            => /\ Returns(t, "true")
               /\ statuses'[loc[t].id] = "building"
               /\ processes'[loc[t].id] # None
     /\ \A id \in Ids :
          (/\ TickOn(id)
           /\ statuses[id] = "building"
           /\ processes[id] # None
           /\ os[Val(processes[id])].st = "alive"
           /\ os[Val(processes[id])].listening)
            => statuses'[id] = "running"]_vars

\* A start is in its body for a project that is in error although the
\* supervisor has spawned nothing yet: the error is that of a failed start.
C28_Witness ==
  \E id \in Ids :
    /\ pc[MainT] = "start_check" /\ loc[MainT].id = id
    /\ statuses[id] = "error" /\ processes[id] = None
    /\ \A k \in Pids : os[k].st = "none"

\* C29: nothing is restarted automatically: a handle is created, and a
\* process spawned, only in a step of a start(id) call on that project,
\* and start() is called only by the handler of a start request or by the
\* loop of a start-group / start-all thread; the reconciliation tick,
\* stop and shutdown never do either.
C29_NoAutomaticRestart ==
  [][/\ \A id \in Ids :
          (processes'[id] # None /\ processes'[id] # processes[id])
            => \E t \in Callers : StartActs(t, id)
     /\ \A k \in Pids :
          (os[k].st # "alive" /\ os'[k].st = "alive")
            => \E t \in Callers : StartActs(t, os'[k].proj)
     /\ \A t \in Threads :
          (pc[t] # "start_lock" /\ pc'[t] = "start_lock")
            => \/ t = MainT /\ pc[t] = "idle"
               \/ t \in Bg /\ pc[t] = "bg_iter"]_vars

\* A project whose process failed has no handle while the supervisor is
\* shutting down, after a tick has recorded the failure.
C29_Witness ==
  /\ pc[SigT] # "none"
  /\ \E id \in Ids :
       /\ statuses[id] = "error" /\ exit_codes[id] # None
       /\ processes[id] = None

\* An aggregate status response is ready to be sent.
StatusResponse == pc[MainT] = "respond" /\ loc[MainT].op = "status"

\* C30: in every aggregate status response each registered project is
\* listed exactly once, for each of the five statuses the count equals
\* the number of projects listed with that status, and the counts sum to
\* the number of registered projects.
C30_CountsMatchListing ==
  StatusResponse =>
    LET projects == loc[MainT].projects
        counts == loc[MainT].counts
        Listed(st) == {i \in 1..Len(projects) : projects[i].status = st} IN
    /\ Len(projects) = N
    /\ \A id \in Ids :
         Cardinality({i \in 1..Len(projects) : projects[i].id = id}) = 1
    /\ DOMAIN counts = Status
    /\ \A st \in Status : counts[st] = Cardinality(Listed(st))
    /\ counts["stopped"] + counts["building"] + counts["running"]
         + counts["error"] + counts["unmanaged"] = N

\* A response lists projects with different statuses, one with an exit
\* code.
C30_Witness ==
  /\ StatusResponse
  /\ \E i, j \in 1..N :
       /\ loc[MainT].projects[i].status # loc[MainT].projects[j].status
       /\ loc[MainT].projects[i].exitCode # None

\* A process the supervisor spawned for project id is bound to its port.
OwnSpawnListens(id) ==
  \E k \in Pids : os[k].st = "alive" /\ os[k].proj = id /\ os[k].listening

\* C31: whenever a project's status is unmanaged, what is bound to its
\* port is not a process the supervisor spawned: a project is never
\* marked unmanaged on account of a process of the supervisor's own,
\* such as one that still holds the port after stop released its handle.
C31_UnmanagedIsForeign ==
  [][\A id \in Ids :
       (statuses[id] # "unmanaged" /\ statuses'[id] = "unmanaged")
         => (ext[id] /\ ~OwnSpawnListens(id))]_vars

\* Thread t is inside a start(id) or stop(id) call and takes this step.
CallStep(t) == pc[t] \in StartPcs \cup StopPcs /\ StepOf(t)

\* C36: start(id) and stop(id) change only the runtime state of project
\* id: no step of the call, whatever its outcome, changes the status,
\* handle or exit code of another project.
C36_OtherProjectsUntouched ==
  [][\A t \in Callers : CallStep(t) =>
       \A other \in Ids \ {loc[t].id} :
         /\ statuses'[other] = statuses[other]
         /\ processes'[other] = processes[other]
         /\ exit_codes'[other] = exit_codes[other]]_vars

\* A start of one project is in its body while the other project is
\* running under its own handle.
C36_Witness ==
  \E id, other \in Ids :
    /\ id # other
    /\ pc[MainT] = "start_check" /\ loc[MainT].id = id
    /\ statuses[other] = "running" /\ processes[other] # None

\* C37: a start(id) that fails because the marker is missing or the
\* executable is not found changes only the status of the project, to
\* error: it creates no handle and leaves the exit code as it was, so
\* the exit code of an earlier run stays next to the new status.
C37_FailedStartKeepsExitCode ==
  [][\A t \in Callers :
       (/\ Startable(t)
        /\ \/ \E popen \in PopenOutcomes : StartBody(t, FALSE, popen)
           \/ StartBody(t, TRUE, "notfound"))
         => LET id == loc[t].id IN
            /\ statuses'[id] = "error"
            /\ \A other \in Ids \ {id} : statuses'[other] = statuses[other]
            /\ processes' = processes /\ processes'[id] = None
            /\ exit_codes' = exit_codes]_vars

\* A start has just failed on a project that still shows the exit code
\* of its earlier run.
C37_Witness ==
  /\ pc[MainT] = "respond" /\ loc[MainT].op = "start"
  /\ loc[MainT].ret = "false"
  /\ loc[MainT].id \in Ids /\ statuses[loc[MainT].id] = "error"
  /\ exit_codes[loc[MainT].id] # None

\* A stop-all / stop-group request has run its loop to the end and is
\* about to answer: it has returned to the handler.
StopManyReturned ==
  pc[MainT] = "respond" /\ loc[MainT].op \in {"stop_all", "stop_group"}

\* C38: a start-all / start-group iteration in flight is not cancelled by
\* a later stop-all / stop-group: after that request has returned, the
\* iteration still reads the status of each member it reaches and calls
\* start on every member that is stopped at that moment, and that call
\* spawns as any start does.
C38_StaggeredNotCancelled ==
  [][StopManyReturned =>
       \A t \in Bg :
         /\ (/\ pc[t] = "bg_iter" /\ loc'[t] # loc[t]
             /\ loc[t].i \in 1..N
             /\ Member(loc[t].op, loc[t].group, loc[t].i)
             /\ statuses[PROJECTS[loc[t].i].id] = "stopped")
              => Invokes(t, "start_lock", PROJECTS[loc[t].i].id)
         /\ (StartBody(t, TRUE, "ok") /\ Startable(t))
              => processes'[loc[t].id] # None]_vars

\* A stop-all has returned and a start-all thread begun before it is in
\* the body of start() for a project that is stopped.
C38_Witness ==
  /\ pc[MainT] = "respond" /\ loc[MainT].op = "stop_all"
  /\ \E t \in Bg :
       /\ pc[t] = "start_check" /\ loc[t].op = "start_all"
       /\ statuses[loc[t].id] = "stopped"
       /\ \E k \in Pids : os[k].st = "none"

\* Thread t leaves start(), stop() or the reconciliation pass in this
\* step, by a return or by an exception.
Leaves(t) ==
  /\ pc[t] \in StartPcs \cup StopPcs \cup {"mon_proj"}
  /\ pc'[t] \notin StartPcs \cup StopPcs \cup {"mon_proj"}

\* C39: the lock is released on every exit path of start, stop and the
\* reconciliation pass: a step in which a thread leaves one of them, by a
\* successful return, a failure return or an escaping exception, leaves
\* that thread without the lock, and the lock is never held while no
\* thread is inside one of them, so the next operation can take it.
C39_LockReleased ==
  /\ [](InSection = {} => lock = None)
  /\ [][\A t \in Threads : Leaves(t) => lock' # Some(t)]_vars

\* A start has returned false after writing error and the reconciliation
\* pass has taken the lock after it.
C39_Witness ==
  /\ pc[MainT] = "respond" /\ loc[MainT].op = "start"
  /\ loc[MainT].ret = "false"
  /\ loc[MainT].id \in Ids /\ statuses[loc[MainT].id] = "error"
  /\ lock = Some(MonT)

\* ----------------------------------------------------- the issue poller
\* The poll loop takes its turn for issue n in this step.
TurnOn(n) ==
  /\ poller.pc = "iter" /\ poller'.i = poller.i + 1
  /\ poller'.line.issue = n

\* Agent process p is spawned in this step.
AgentSpawned(p) == agents[p].st = "none" /\ agents'[p].st = "alive"

\* The agents spawned so far.
SpawnedAgents == {p \in AgentPids : agents[p].st # "none"}

\* C32: for any comment id, the issue body's negative pseudo-id included,
\* at most one agent is ever spawned in response to it; an id recorded as
\* processed is never removed, and no agent is spawned for an id that is
\* already recorded.
C32_OneAgentPerComment ==
  /\ [](\A p, q \in SpawnedAgents :
          agents[p].comment = agents[q].comment => p = q)
  /\ [][/\ conn.processed_comments \subseteq conn'.processed_comments
        /\ \A p \in AgentPids : AgentSpawned(p) =>
             /\ agents'[p].comment \notin conn.processed_comments
             /\ agents'[p].comment \in conn'.processed_comments]_vars

\* A comment that an agent was spawned for has come up again in a later
\* cycle and was skipped as already processed.
C32_Witness ==
  /\ poller.line.what = "already_processed"
  /\ \E p \in SpawnedAgents : agents[p].comment = poller.line.comment

\* The live agents spawned for issue n.
LiveAgents(n) ==
  {p \in AgentPids : agents[p].st = "alive" /\ agents[p].issue = n}

\* C33: no agent is spawned for an issue while the agent recorded for it
\* is alive, so an issue has at most one live agent; and the active-agent
\* record of an issue is removed or replaced only when its process is
\* found dead.
C33_OneLiveAgentPerIssue ==
  /\ [](\A n \in Issues : Cardinality(LiveAgents(n)) <= 1)
  /\ [][\A n \in Issues :
          /\ (\E p \in AgentPids : AgentSpawned(p) /\ agents'[p].issue = n)
               => LiveAgents(n) = {}
          /\ (/\ conn.active_agents[n] # None
              /\ conn'.active_agents[n] # conn.active_agents[n])
               => agents[Val(conn.active_agents[n])].st = "dead"]_vars

\* The loop has skipped an issue because its agent is still running,
\* although the issue's latest comment is a user comment not yet processed.
C33_Witness ==
  /\ poller.line.what = "agent_running"
  /\ LET n == poller.line.issue IN
     /\ LiveAgents(n) # {}
     /\ gh[n] # << >>
     /\ gh[n][Len(gh[n])].kind = "user"
     /\ gh[n][Len(gh[n])].id \notin conn.processed_comments

C35_AtMostOnce ==
  [][\A n \in Issues :
       /\ (TurnOn(n) /\ poller'.line.what = "spawn_failed")
            => /\ poller'.line.comment \in conn'.processed_comments
               /\ conn'.active_agents[n] = None
               /\ agents' = agents
       /\ (TurnOn(n) /\ poller'.line.what \in {"spawned", "spawn_failed"})
            => poller'.line.comment \notin conn.processed_comments]_vars

\* A spawn has just failed for a user comment.
C35_Witness ==
  /\ poller.line.what = "spawn_failed"
  /\ poller.line.comment \in conn.processed_comments
  /\ conn.active_agents[poller.line.issue] = None
  /\ \A p \in SpawnedAgents : agents[p].comment # poller.line.comment

====
